---- MODULE Spec2Model ----
(***************************************************************************)
(* Model of the CORS middleware of macchiatojs/cors (src/src/index.ts).    *)
(*                                                                         *)
(* cors(options) resolves the configuration into closure variables and     *)
(* returns a middleware; every request handled by that middleware runs     *)
(* main(request, response, next).  The closure variables are the state     *)
(* that outlives a request; the request, the response it started from and  *)
(* the exchange main produced are kept for the last request handled.       *)
(***************************************************************************)
EXTENDS Integers, Sequences, FiniteSets

VARIABLES
    options,        \* the options object the caller passed to cors()
    expressify,     \* closure variables of cors(), index.ts line 40
    credentials,
    origins,
    allowMethods,
    maxAge,
    allowHeaders,
    exposeHeaders,
    constructed,    \* the closure variables as they were when cors() returned
    style,          \* which returned wrapper handled the last request
    request,        \* the last request handled
    response0,      \* the response headers when main was entered
    allowHeaders0,  \* the closure variable allowHeaders when main was entered
    exchange        \* what main did to the response and to next

vars == << options, expressify, credentials, origins, allowMethods, maxAge,
           allowHeaders, exposeHeaders, constructed, style, request,
           response0, allowHeaders0, exchange >>

\* the closure variables, as main sees them
Closure ==
    [expressify    |-> expressify,
     credentials   |-> credentials,
     origins       |-> origins,
     allowMethods  |-> allowMethods,
     maxAge        |-> maxAge,
     allowHeaders  |-> allowHeaders,
     exposeHeaders |-> exposeHeaders]

-----------------------------------------------------------------------------
(* Bounds *)

\* longest list passed for a list-valued option
MaxListLen == 2

\* most keys the options object passed to cors() has
MaxOptions == 2

-----------------------------------------------------------------------------
(* JavaScript values that reach the code *)

Undefined == [kind |-> "undefined"]
Str(s)    == [kind |-> "string", v |-> s]
Arr(a)    == [kind |-> "array", v |-> a]
Bool(b)   == [kind |-> "boolean", v |-> b]
Num(n)    == [kind |-> "number", v |-> n]

\* ToBoolean, as applied by `if (x)`, `!x`, `!!x` and `x && y`
Truthy(x) ==
    CASE x.kind = "undefined" -> FALSE
      [] x.kind = "string"    -> x.v # ""
      [] x.kind = "array"     -> TRUE
      [] x.kind = "boolean"   -> x.v
      [] x.kind = "number"    -> x.v # 0

\* Array.isArray
IsArray(x) == x.kind = "array"

\* Array.prototype.join(',') on an array of strings
RECURSIVE Join(_)
JoinReversed(a) ==
    IF Len(a) = 0 THEN ""
    ELSE IF Len(a) = 1 THEN a[1]
    ELSE Join(Tail(a)) \o "," \o a[1]

Join(a) ==
    IF Len(a) = 0 THEN ""
    ELSE IF Len(a) = 1 THEN a[1]
    ELSE a[1] \o "," \o Join(Tail(a))

Digit(d) ==
    CASE d = 0 -> "0" [] d = 1 -> "1" [] d = 2 -> "2" [] d = 3 -> "3"
      [] d = 4 -> "4" [] d = 5 -> "5" [] d = 6 -> "6" [] d = 7 -> "7"
      [] d = 8 -> "8" [] d = 9 -> "9"

\* String(n) for a non-negative integer n
RECURSIVE String(_)
StringReversed(n) ==
    IF n < 10 THEN Digit(n) ELSE Digit(n % 10) \o String(n \div 10)

String(n) ==
    IF n < 10 THEN Digit(n) ELSE String(n \div 10) \o Digit(n % 10)

-----------------------------------------------------------------------------
(* cors(options): construction *)

defaultOptions ==
    [expressify   |-> Bool(TRUE),
     credentials  |-> Bool(FALSE),
     allowMethods |-> Str("GET,HEAD,PATCH,PUT,POST,DELETE"),
     maxAge       |-> Num(0)]

\* { ...a, ...b }: the own keys of both, b's value winning
Spread(a, b) ==
    [k \in DOMAIN a \cup DOMAIN b |-> IF k \in DOMAIN b THEN b[k] ELSE a[k]]

\* destructuring: a key the object lacks reads as undefined
Prop(o, k) == IF k \in DOMAIN o THEN o[k] ELSE Undefined

\* `if (Array.isArray(x)) x = x.join(',')`
JoinIfArray(x) == IF IsArray(x) THEN Str(Join(x.v)) ELSE x

\* the closure variables cors(opts) leaves behind for main
Cors(opts) ==
    LET merged == Spread(defaultOptions, opts) IN
    [expressify    |-> Prop(merged, "expressify"),
     credentials   |-> Bool(Truthy(Prop(merged, "credentials"))),
     origins       |-> Prop(merged, "origins"),
     allowMethods  |-> JoinIfArray(Prop(merged, "allowMethods")),
     maxAge        |-> Prop(merged, "maxAge"),
     allowHeaders  |-> JoinIfArray(Prop(merged, "allowHeaders")),
     exposeHeaders |-> JoinIfArray(Prop(merged, "exposeHeaders"))]

-----------------------------------------------------------------------------
(* The request and response views main works on *)

RequestHeaderNames == {"Origin", "Access-Control-Request-Method",
                       "Access-Control-Request-Headers"}

\* request.get(name)
get(req, name) == req.headers[name]

NoHeaders == [n \in {} |-> ""]

\* the exchange when main is entered: the headers earlier middleware set,
\* nothing sent, next not invoked, and main's view of allowHeaders
Enter(headers, ah) ==
    [headers |-> headers, sent |-> <<>>, nextCalls |-> 0, log |-> <<>>,
     allowHeaders |-> ah]

Event(op, arg) == [op |-> op, arg |-> arg]

\* response.set(name, value)
set(e, name, value) ==
    [e EXCEPT !.headers = [n \in DOMAIN e.headers \cup {name} |->
                              IF n = name THEN value ELSE e.headers[n]],
              !.log = Append(e.log, Event("set", name))]

\* response.vary(field): add field to the Vary header
vary(e, field) ==
    [e EXCEPT !.headers = [n \in DOMAIN e.headers \cup {"Vary"} |->
                              IF n # "Vary" THEN e.headers[n]
                              ELSE IF "Vary" \in DOMAIN e.headers
                                   THEN e.headers["Vary"] \o ", " \o field
                                   ELSE field],
              !.log = Append(e.log, Event("vary", field))]

\* response.send(status, body)
send(e, status, body) ==
    [e EXCEPT !.sent = Append(e.sent, [status |-> status, body |-> body]),
              !.log = Append(e.log, Event("send", ""))]

\* next()
callNext(e) ==
    [e EXCEPT !.nextCalls = e.nextCalls + 1,
              !.log = Append(e.log, Event("next", ""))]

-----------------------------------------------------------------------------
(* main(request, response, next) *)

\* `!requestOrigin || requestOrigin.length === 0`
NoOriginUndefinedOnly(requestOrigin) == requestOrigin.kind = "undefined"

NoOrigin(requestOrigin) ==
    ~Truthy(requestOrigin) \/ Len(requestOrigin.v) = 0

\* `origins ?? requestOrigin`
ResolveOriginEcho(c, requestOrigin) == requestOrigin

ResolveOrigin(c, requestOrigin) ==
    IF c.origins.kind = "undefined" THEN requestOrigin ELSE c.origins

\* `response.vary('Origin')`
OverwriteVary(e) == set(e, "Vary", "Origin")

AlwaysVary(e) == vary(e, "Origin")

\* `if (credentials) response.set('Access-Control-Allow-Credentials', 'true')`
AllowCredentialsAsBoolean(c, e) ==
    set(e, "Access-Control-Allow-Credentials",
        IF c.credentials.v THEN "true" ELSE "false")

AllowCredentials(c, e) ==
    IF Truthy(c.credentials)
    THEN set(e, "Access-Control-Allow-Credentials", "true")
    ELSE e

\* `request.method !== 'OPTIONS' || !request.get('Access-Control-Request-Method')`
IsSimpleByMethodOnly(req) == req.method # "OPTIONS"

IsSimple(req) ==
    req.method # "OPTIONS" \/ ~Truthy(get(req, "Access-Control-Request-Method"))

\* simple cross-origin request: expose headers, then next
SimpleNextFirst(c, e) ==
    LET e1 == callNext(e) IN
    IF Truthy(c.exposeHeaders)
    THEN set(e1, "Access-Control-Expose-Headers", c.exposeHeaders.v)
    ELSE e1

Simple(c, e) ==
    LET e1 == IF Truthy(c.exposeHeaders)
              THEN set(e, "Access-Control-Expose-Headers", c.exposeHeaders.v)
              ELSE e
    IN callNext(e1)

\* preflight request: e.allowHeaders is the closure variable allowHeaders,
\* which line 68 assigns
Preflight(c, req, e) ==
    LET e1 == IF Truthy(c.allowMethods)
              THEN set(e, "Access-Control-Allow-Methods", c.allowMethods.v)
              ELSE e
        e2 == IF ~Truthy(e1.allowHeaders)
              THEN [e1 EXCEPT !.allowHeaders =
                                 get(req, "Access-Control-Request-Headers")]
              ELSE e1
        e3 == IF Truthy(e2.allowHeaders)
              THEN set(e2, "Access-Control-Allow-Headers", e2.allowHeaders.v)
              ELSE e2
        e4 == IF Truthy(c.maxAge) /\ c.maxAge.v > 0
              THEN set(e3, "Access-Control-Max-Age", String(c.maxAge.v))
              ELSE e3
    IN send(e4, 204, "")

main(c, req, headers) ==
    LET e0 == Enter(headers, c.allowHeaders)
        requestOrigin == get(req, "Origin")
    IN  IF NoOrigin(requestOrigin) THEN callNext(e0)
        ELSE LET origin == ResolveOrigin(c, requestOrigin)
                 e1 == AlwaysVary(e0)
                 e2 == set(e1, "Access-Control-Allow-Origin", origin.v)
                 e3 == AllowCredentials(c, e2)
             IN  IF IsSimple(req) THEN Simple(c, e3) ELSE Preflight(c, req, e3)

-----------------------------------------------------------------------------
(* Inputs *)

\* a key the caller leaves out of the options object
Omitted == [kind |-> "omitted"]

\* the lists of up to MaxListLen strings: the prefixes of names, repeated
\* when MaxListLen outgrows it
ListsOf(names) ==
    {[i \in 1..k |-> names[((i - 1) % Len(names)) + 1]] : k \in 0..MaxListLen}

ExpressifyChoices    == {Omitted, Bool(FALSE)}
CredentialsChoices   == {Omitted, Bool(TRUE), Bool(FALSE)}
OriginsChoices       == {Omitted, Str("*")}
AllowMethodsChoices  == {Omitted, Undefined, Str("GET")}
                            \cup {Arr(a) : a \in ListsOf(<<"GET", "POST", "PUT">>)}
AllowHeadersChoices  == {Omitted, Str("X-PINGOTHER")}
                            \cup {Arr(a) : a \in ListsOf(<<"X-A", "X-B", "X-C">>)}
ExposeHeadersChoices == {Omitted, Str("content-length")}
                            \cup {Arr(a) : a \in ListsOf(<<"X-E", "X-F", "X-G">>)}
MaxAgeChoices        == {Omitted, Num(0), Num(5), Num(3600)}

\* the options object with the omitted keys left out
Object(choice) ==
    [k \in {j \in DOMAIN choice : choice[j] # Omitted} |-> choice[k]]

Methods == {"GET", "OPTIONS"}

RequestHeaders(o, rm, rh) ==
    [n \in RequestHeaderNames |->
        CASE n = "Origin" -> o
          [] n = "Access-Control-Request-Method" -> rm
          [] n = "Access-Control-Request-Headers" -> rh]

\* requests with an Origin, and requests whose Origin is absent or empty
Requests ==
    { [method |-> m,
       headers |-> RequestHeaders(Str("http://koajs.com"), rm, rh)] :
        m \in Methods,
        rm \in {Undefined, Str("PUT")},
        rh \in {Undefined, Str("X-PINGOTHER"), Str("X-OTHER")} }
    \cup
    { [method |-> m, headers |-> RequestHeaders(o, rm, Undefined)] :
        m \in Methods,
        o \in {Undefined, Str("")},
        rm \in {Undefined, Str("PUT")} }

\* the response headers earlier middleware may have set
Responses == {NoHeaders, [n \in {"Vary"} |-> "Accept-Encoding"]}

-----------------------------------------------------------------------------
(* The state machine *)

Init ==
    \E ex \in ExpressifyChoices, cr \in CredentialsChoices,
       og \in OriginsChoices, am \in AllowMethodsChoices,
       ah \in AllowHeadersChoices, eh \in ExposeHeadersChoices,
       ma \in MaxAgeChoices :
        LET opts == Object([expressify |-> ex, credentials |-> cr,
                            origins |-> og, allowMethods |-> am,
                            allowHeaders |-> ah, exposeHeaders |-> eh,
                            maxAge |-> ma])
            c == Cors(opts)
        IN  /\ Cardinality(DOMAIN opts) <= MaxOptions
            /\ options = opts
            /\ expressify = c.expressify
            /\ credentials = c.credentials
            /\ origins = c.origins
            /\ allowMethods = c.allowMethods
            /\ maxAge = c.maxAge
            /\ allowHeaders = c.allowHeaders
            /\ exposeHeaders = c.exposeHeaders
            /\ constructed = c
            /\ style = "none"
            /\ request = [method |-> "GET",
                          headers |-> [n \in RequestHeaderNames |-> Undefined]]
            /\ response0 = NoHeaders
            /\ allowHeaders0 = c.allowHeaders
            /\ exchange = Enter(NoHeaders, c.allowHeaders)

\* one run of main on a request; the assignment of line 68 outlives it
Handle(req, headers, how) ==
    /\ exchange' = main(Closure, req, headers)
    /\ allowHeaders' = exchange'.allowHeaders
    /\ request' = req
    /\ response0' = headers
    /\ allowHeaders0' = allowHeaders
    /\ style' = how
    /\ UNCHANGED << options, expressify, credentials, origins, allowMethods,
                    maxAge, exposeHeaders, constructed >>

\* `(request, response, next) => main(request, response, next)`
ExpressStyle ==
    /\ Truthy(expressify)
    /\ \E req \in Requests, res \in Responses : Handle(req, res, "express")

\* `(context, next) => main(context.request, context.response, next)`
ContextStyle ==
    /\ ~Truthy(expressify)
    /\ \E req \in Requests, res \in Responses :
          LET context == [request |-> req, response |-> res]
          IN  Handle(context.request, context.response, "context")

Next == ExpressStyle \/ ContextStyle

Spec == Init /\ [][Next]_vars

-----------------------------------------------------------------------------
(* Vocabulary of the properties *)

Handled == style # "none"

\* the last request carried a non-empty Origin header
HasOrigin ==
    /\ request.headers["Origin"].kind = "string"
    /\ request.headers["Origin"].v # ""

\* the last request was OPTIONS with a non-empty Access-Control-Request-Method
PreflightRequest ==
    /\ request.method = "OPTIONS"
    /\ request.headers["Access-Control-Request-Method"].kind = "string"
    /\ request.headers["Access-Control-Request-Method"].v # ""

Has(name) == name \in DOMAIN exchange.headers

Header(name) == exchange.headers[name]

Passed(k) == k \in DOMAIN options

NoContent == [status |-> 204, body |-> ""]

-----------------------------------------------------------------------------
(* C1 *)

\* C1: a request with a non-empty Origin that is a preflight is ended with
\* 204 and an empty body and next is never invoked; any other request with a
\* non-empty Origin invokes next exactly once and is sent no 204.
C1_PreflightEndsOthersProceed ==
    (Handled /\ HasOrigin) =>
        IF PreflightRequest
        THEN exchange.sent = << NoContent >> /\ exchange.nextCalls = 0
        ELSE exchange.sent = << >> /\ exchange.nextCalls = 1

C1_Witness ==
    /\ Handled /\ HasOrigin /\ PreflightRequest
    /\ exchange.sent = << NoContent >>

-----------------------------------------------------------------------------
(* C2 *)

\* C2: on an instance created without allowHeaders, every preflight carrying
\* Access-Control-Request-Headers = X is answered with
\* Access-Control-Allow-Headers = X, whatever earlier preflights carried.
C2_AllowHeadersEchoesRequest ==
    ( /\ Handled /\ HasOrigin /\ PreflightRequest
      /\ ~Passed("allowHeaders")
      /\ request.headers["Access-Control-Request-Headers"].kind = "string" )
    => /\ Has("Access-Control-Allow-Headers")
       /\ Header("Access-Control-Allow-Headers")
            = request.headers["Access-Control-Request-Headers"].v

-----------------------------------------------------------------------------
(* C3 *)

\* C3: the configuration resolved by cors(options) is read-only afterwards:
\* after any sequence of requests each value equals its value at construction.
C3_ConfigurationReadOnly == Closure = constructed

-----------------------------------------------------------------------------
(* C4 *)

-----------------------------------------------------------------------------
(* C5 *)

\* C5: for a request with a non-empty Origin = X, on either path,
\* Access-Control-Allow-Origin is the configured origins when origins was
\* passed and X verbatim otherwise.
C5_AllowOrigin ==
    (Handled /\ HasOrigin) =>
        /\ Has("Access-Control-Allow-Origin")
        /\ Header("Access-Control-Allow-Origin") =
              IF Passed("origins") THEN options.origins.v
              ELSE request.headers["Origin"].v

C5_Witness ==
    /\ Handled /\ HasOrigin /\ PreflightRequest
    /\ Passed("origins") /\ options.origins = Str("*")
    /\ Header("Access-Control-Allow-Origin") = "*"

-----------------------------------------------------------------------------
(* C6 *)

\* C6: for a request with a non-empty Origin, on either path,
\* Access-Control-Allow-Credentials is exactly "true" when credentials is
\* true and is absent when credentials is false or was not passed.
C6_AllowCredentials ==
    (Handled /\ HasOrigin) =>
        IF Passed("credentials") /\ options.credentials = Bool(TRUE)
        THEN /\ Has("Access-Control-Allow-Credentials")
             /\ Header("Access-Control-Allow-Credentials") = "true"
        ELSE ~Has("Access-Control-Allow-Credentials")

C6_Witness ==
    /\ Handled /\ HasOrigin /\ PreflightRequest
    /\ Passed("credentials") /\ options.credentials = Bool(TRUE)
    /\ Header("Access-Control-Allow-Credentials") = "true"

-----------------------------------------------------------------------------
(* C7 *)

\* the decimal numerals of the maxAge values passed
Decimal(n) == CASE n = 3600 -> "3600" [] n = 5 -> "5" [] n = 0 -> "0"

\* C7: with maxAge = N > 0 every preflight response carries
\* Access-Control-Max-Age = the decimal string of N; with maxAge 0 or not
\* passed no preflight response carries it; a request that is not a preflight
\* never gets it.
C7_MaxAge ==
    Handled =>
        IF HasOrigin /\ PreflightRequest /\ Passed("maxAge")
              /\ options.maxAge.v > 0
        THEN /\ Has("Access-Control-Max-Age")
             /\ Header("Access-Control-Max-Age") = Decimal(options.maxAge.v)
        ELSE ~Has("Access-Control-Max-Age")

C7_Witness ==
    /\ Handled /\ HasOrigin /\ PreflightRequest
    /\ Passed("maxAge") /\ options.maxAge = Num(3600)
    /\ Header("Access-Control-Max-Age") = "3600"

-----------------------------------------------------------------------------
(* C8 *)

\* C8: for a request with a non-empty Origin, Vary becomes "Origin" when it
\* was absent and "V, Origin" when it held V.
C8_VaryAccumulates ==
    (Handled /\ HasOrigin) =>
        /\ Has("Vary")
        /\ Header("Vary") = IF "Vary" \in DOMAIN response0
                            THEN response0["Vary"] \o ", Origin"
                            ELSE "Origin"

C8_Witness ==
    /\ Handled /\ HasOrigin
    /\ "Vary" \in DOMAIN response0
    /\ Header("Vary") = "Accept-Encoding, Origin"

-----------------------------------------------------------------------------
(* C10 *)

Mutations == {"set", "vary"}

\* C10: where main invokes next for a request with a non-empty Origin, the
\* header mutations it makes (Vary, Access-Control-Allow-Origin, and the
\* credentials and expose headers when configured) are all made before next
\* is invoked, and none is made after.
C10_MutationsBeforeNext ==
    (Handled /\ HasOrigin /\ exchange.nextCalls > 0) =>
        LET log == exchange.log
            n == CHOOSE i \in 1..Len(log) : log[i].op = "next"
            Before(op, arg) == \E i \in 1..(n - 1) : log[i] = Event(op, arg)
        IN  /\ \A j \in (n + 1)..Len(log) : log[j].op \notin Mutations
            /\ Before("vary", "Origin")
            /\ Before("set", "Access-Control-Allow-Origin")
            /\ Truthy(credentials)
                  => Before("set", "Access-Control-Allow-Credentials")
            /\ Truthy(exposeHeaders)
                  => Before("set", "Access-Control-Expose-Headers")

C10_Witness ==
    /\ Handled /\ HasOrigin /\ exchange.nextCalls = 1
    /\ Truthy(exposeHeaders)
    /\ Len(exchange.log) >= 2
    /\ exchange.log[Len(exchange.log) - 1]
          = Event("set", "Access-Control-Expose-Headers")
    /\ exchange.log[Len(exchange.log)] = Event("next", "")

-----------------------------------------------------------------------------
(* C9 *)

ListOptions == {"allowMethods", "allowHeaders", "exposeHeaders"}

\* the elements of a, in order, with "," between neighbours
Joined(a) ==
    IF a = << >> THEN ""
    ELSE LET F[i \in 1..Len(a)] ==
                 IF i = 1 THEN a[1] ELSE F[i - 1] \o "," \o a[i]
         IN  F[Len(a)]

PassedList(k) == Passed(k) /\ options[k].kind = "array"

\* the response header an option is the value of, and the path it is set on
HeaderOf(k) ==
    CASE k = "allowMethods"  -> "Access-Control-Allow-Methods"
      [] k = "allowHeaders"  -> "Access-Control-Allow-Headers"
      [] k = "exposeHeaders" -> "Access-Control-Expose-Headers"

OnPathOf(k) ==
    IF k = "exposeHeaders" THEN ~PreflightRequest ELSE PreflightRequest

\* what a caller can observe of one run of main
Observed(e) ==
    [headers |-> e.headers, sent |-> e.sent, nextCalls |-> e.nextCalls,
     log |-> e.log]

\* a list-valued option is normalized to its join, and a non-empty join is
\* the value of the option's header
JoinedIsHeader(k) ==
    /\ constructed[k] = Str(Joined(options[k].v))
    /\ (Handled /\ HasOrigin /\ OnPathOf(k) /\ Joined(options[k].v) # "")
          => /\ Has(HeaderOf(k))
             /\ Header(HeaderOf(k)) = Joined(options[k].v)

\* the closure variables of the instance created with options o and handed
\* the same requests, when its allowHeaders is ah wherever line 68 has
\* assigned a value: allowMethods and exposeHeaders stay as constructed
Twin(o, ah) ==
    [Cors(o) EXCEPT !.allowHeaders = IF Truthy(ah) THEN ah ELSE @]

\* the last request was answered as the instance created with o answers it
AnsweredAs(o) ==
    Handled =>
        Observed(exchange)
            = Observed(main(Twin(o, allowHeaders0), request, response0))

\* every next request is answered as the instance created with o answers it
WillAnswerAs(o) ==
    \A req \in Requests, res \in Responses :
        Observed(main(Closure, req, res))
            = Observed(main(Twin(o, allowHeaders), req, res))

\* C9 as stated: a list-valued option is normalized to its elements joined
\* by "," and that string is the value of the header; an empty list behaves
\* exactly like the option being unset.
C9_EmptyListLikeUnset ==
    \A k \in ListOptions :
        PassedList(k) =>
            /\ JoinedIsHeader(k)
            /\ options[k].v = << >> =>
                  AnsweredAs([j \in DOMAIN options \ {k} |-> options[j]])

\* C9 amended: a list-valued option is normalized to its elements joined by
\* "," and a non-empty join is the value of the header; an empty list joins
\* to the empty string, which behaves exactly like the option passed as
\* undefined.
C9_EmptyListLikeUndefined ==
    \A k \in ListOptions :
        PassedList(k) =>
            /\ JoinedIsHeader(k)
            /\ options[k].v = << >> =>
                  /\ AnsweredAs([options EXCEPT ![k] = Undefined])
                  /\ WillAnswerAs([options EXCEPT ![k] = Undefined])
                  /\ (Handled /\ HasOrigin /\ k # "allowHeaders")
                        => ~Has(HeaderOf(k))

C9_Witness ==
    /\ Handled /\ HasOrigin /\ PreflightRequest
    /\ PassedList("allowMethods")
    /\ options.allowMethods.v = << "GET", "POST" >>
    /\ Header("Access-Control-Allow-Methods") = "GET,POST"

====
